---- MODULE Spec2Model ----
(***************************************************************************)
(* ARA (Autonomous Refactoring Agent): the self-correction loop            *)
(* (analyzer -> generator -> validator -> router -> reflector / handlers), *)
(* the router as a pure function, and the dependency orderer.              *)
(*                                                                         *)
(* Three specifications share the variables:                               *)
(*   Spec        one workflow run of the compiled graph (graph.invoke)     *)
(*   SpecRouter  route_after_validation applied to arbitrary states        *)
(*   SpecOrder   build_dependency_graph + get_refactoring_order applied    *)
(*               to arbitrary file sets                                    *)
(***************************************************************************)
EXTENDS Integers, Sequences, FiniteSets, TLC

(***************************************************************************)
(* Bounds of the model.                                                    *)
(***************************************************************************)
\* largest max_iterations a workflow is started with
MaxIter == 2
\* longest validation_history handed to the router in SpecRouter
MaxHist == 6
\* most import statements in one supplied file set in SpecOrder
MaxImports == 3

\* cap on the length of generated_log; above every count a run can reach
MaxGenerations == MaxIter + 3

\* the router and the reflector look at validation_history[-5:]
RecentWindow == 5

None == "None"

(***************************************************************************)
(* Sequence helpers.                                                       *)
(***************************************************************************)
Range(s) == {s[i] : i \in 1..Len(s)}

SeqsUpTo(S, n) == UNION {[1..k -> S] : k \in 0..n}

\* Python s[-n:]
LastN(s, n) == IF Len(s) <= n THEN s ELSE SubSeq(s, Len(s) - n + 1, Len(s))

\* index of the first occurrence of x in s, 0 when absent (list.index)
IndexOf(s, x) ==
    IF x \in Range(s) THEN CHOOSE i \in 1..Len(s) : s[i] = x /\ \A j \in 1..(i - 1) : s[j] # x
    ELSE 0

\* sequences over S without repetition (the key orders of a dict)
Orders(S) == {s \in SeqsUpTo(S, Cardinality(S)) : \A i, j \in 1..Len(s) : i # j => s[i] # s[j]}

(***************************************************************************)
(* Dependency orderer (context/dependency_graph.py).                       *)
(*                                                                         *)
(* A supplied file is [path, imports, parses]: imports is the list of      *)
(* imported module names in source order, already reduced to their last    *)
(* dotted component; parses is FALSE when ast.parse raises SyntaxError.    *)
(***************************************************************************)
Paths == {"a.py", "b.py", "c.py"}

\* Path(fp).stem
Stem(p) == CASE p = "a.py" -> "a" [] p = "b.py" -> "b" [] p = "c.py" -> "c" [] OTHER -> None

Stems == {Stem(p) : p \in Paths}

\* analyze_file returns a ModuleInfo, or None for a file that does not parse
analyze_file_ok(f) == f.parses

\* first pass of build_dependency_graph: graph.modules in insertion order
GraphModules(files) == SelectSeq(files, analyze_file_ok)

\* module_names = {Path(fp).stem: fp ...}; .get(name): a later key overwrites
ModuleNamesGet(mods, name) ==
    LET hits == {i \in 1..Len(mods) : Stem(mods[i].path) = name}
    IN  IF hits = {} THEN None
        ELSE mods[CHOOSE i \in hits : \A j \in hits : j <= i].path

\* the edges one module contributes, in the order of its imports
RECURSIVE EdgesFrom(_, _, _)
EdgesFrom(mods, fp, imps) ==
    IF imps = <<>> THEN <<>>
    ELSE LET module_file == ModuleNamesGet(mods, Head(imps))
         IN  (IF module_file # None /\ module_file # fp
              THEN <<(<<fp, module_file>>)>> ELSE <<>>)
             \o EdgesFrom(mods, fp, Tail(imps))

RECURSIVE EdgesUpTo(_, _)
EdgesUpTo(mods, k) ==
    IF k = 0 THEN <<>>
    ELSE EdgesUpTo(mods, k - 1) \o EdgesFrom(mods, mods[k].path, mods[k].imports)

\* DependencyGraph built from the supplied files
build_dependency_graph(files) ==
    LET mods == GraphModules(files)
    IN  [modules |-> [i \in 1..Len(mods) |-> mods[i].path],
         edges   |-> EdgesUpTo(mods, Len(mods))]

\* the loop "for from_mod, to_mod in self.edges" of topological_sort
CountedEdges(graph) ==
    SelectSeq(graph.edges,
              LAMBDA e : e[1] \in Range(graph.modules) /\ e[2] \in Range(graph.modules))

Adj(graph, m) ==
    LET es == SelectSeq(CountedEdges(graph), LAMBDA e : e[1] = m)
    IN  [i \in 1..Len(es) |-> es[i][2]]

InDegree(graph) ==
    [m \in Range(graph.modules) |->
        Cardinality({i \in 1..Len(CountedEdges(graph)) : CountedEdges(graph)[i][2] = m})]

\* VisitNeighbors with the "if in_degree[neighbor] == 0" test dropped: every
\* neighbour is enqueued as soon as one of its importers is emitted
RECURSIVE VisitNeighborsNoZeroTest(_, _, _)
VisitNeighborsNoZeroTest(neighbors, in_degree, queue) ==
    IF neighbors = <<>> THEN <<in_degree, queue>>
    ELSE LET n   == Head(neighbors)
             deg == [in_degree EXCEPT ![n] = @ - 1]
         IN  VisitNeighborsNoZeroTest(Tail(neighbors), deg, Append(queue, n))

\* "for neighbor in adj.get(node, [])": returns <<in_degree, queue>>
RECURSIVE VisitNeighbors(_, _, _)
VisitNeighbors(neighbors, in_degree, queue) ==
    IF neighbors = <<>> THEN <<in_degree, queue>>
    ELSE LET n   == Head(neighbors)
             deg == [in_degree EXCEPT ![n] = @ - 1]
         IN  VisitNeighbors(Tail(neighbors), deg,
                            IF deg[n] = 0 THEN Append(queue, n) ELSE queue)

\* "while queue": Kahn's algorithm
RECURSIVE Kahn(_, _, _, _)
Kahn(graph, queue, result, in_degree) ==
    IF queue = <<>> THEN result
    ELSE LET node == Head(queue)
             v    == VisitNeighbors(Adj(graph, node), in_degree, Tail(queue))
         IN  Kahn(graph, v[2], Append(result, node), v[1])

topological_sort(graph) ==
    LET in_degree == InDegree(graph)
        queue     == SelectSeq(graph.modules, LAMBDA m : in_degree[m] = 0)
        result    == Kahn(graph, queue, <<>>, in_degree)
    IN  IF Len(result) # Len(graph.modules)
        THEN result \o SelectSeq(graph.modules, LAMBDA m : m \notin Range(result))
        ELSE result

\* get_refactoring_order without "Add any target files not in graph"
get_refactoring_order_graph_only(graph, target_files) ==
    SelectSeq(topological_sort(graph), LAMBDA f : f \in Range(target_files))

\* get_refactoring_order returning module names in place of file paths
get_refactoring_order_module_names(graph, target_files) ==
    LET ordered == SelectSeq(topological_sort(graph), LAMBDA f : f \in Range(target_files))
        paths   == ordered \o SelectSeq(target_files, LAMBDA f : f \notin Range(ordered))
    IN  [i \in 1..Len(paths) |-> Stem(paths[i])]

get_refactoring_order(graph, target_files) ==
    LET all_ordered == topological_sort(graph)
        ordered     == SelectSeq(all_ordered, LAMBDA f : f \in Range(target_files))
    IN  ordered \o SelectSeq(target_files, LAMBDA f : f \notin Range(ordered))

\* list(files_dict.keys())
FileKeys(files) == [i \in 1..Len(files) |-> files[i].path]

(***************************************************************************)
(* State: the fields of AgentState (state/schema.py), the caller's input,  *)
(* the position in the graph, and what the run has produced so far.        *)
(***************************************************************************)
VARIABLES
    input_files,            \* the files a caller supplies, in dict insertion order
    all_ordered,            \* graph.topological_sort() inside get_refactoring_order
    validator_bypassed,     \* TRUE: validator_node as shipped (debug bypass);
                            \* FALSE: its original validation logic
    files,                  \* AgentState.files: path -> FileContext
    current_file_path,
    file_queue,
    file_queue_index,       \* 0-based, as in the source
    generated_code_snippet,
    validation_history,
    reflection_history,
    iteration_count,
    max_iterations,
    approval_status,
    error_state,
    code_hashes,
    human_feedback,
    disk,                   \* what write_file has written: path -> content
    route,                  \* the last value returned by route_after_validation
    pc,                     \* position: the graph node to run next
    generated_log,          \* what each generator execution returned, in order
    reflector_runs,         \* how many times reflector_node has run
    last_batch,             \* the list the last validator execution returned
    last_prompt,            \* whether the last generator execution built an LLM
                            \* prompt, and the reflection it put in it
    workflows,              \* WorkflowManager._workflows: workflow id -> WorkflowInfo object
    infos,                  \* the WorkflowInfo objects, named by the call that made them
    threads,                \* what the graph has stored per thread id
    calls,                  \* the start_workflow / resume_workflow calls in progress
    acting                  \* the workflow id the last manager step was made for

\* the state of the WorkflowManager
manager_vars == <<workflows, infos, threads, calls, acting>>

\* the state of one graph run
graph_vars == <<input_files, all_ordered, validator_bypassed, files, current_file_path,
                file_queue, file_queue_index, generated_code_snippet,
                validation_history, reflection_history, iteration_count,
                max_iterations, approval_status, error_state, code_hashes,
                human_feedback, disk, route, pc, generated_log, reflector_runs,
                last_batch, last_prompt>>

vars == <<graph_vars, manager_vars>>

\* the start_workflow / resume_workflow calls the manager is given
CallIds == {1, 2}

\* a call that has not been made
IdleCall == [kind |-> "none", stage |-> "idle"]

\* the AgentState fields as create_initial_state sets them
InitialAgentState ==
    /\ files = <<>>
    /\ current_file_path = None
    /\ file_queue = <<>>
    /\ file_queue_index = 0
    /\ generated_code_snippet = None
    /\ validation_history = <<>>
    /\ reflection_history = <<>>
    /\ iteration_count = 0
    /\ approval_status = "PENDING"
    /\ error_state = None
    /\ code_hashes = {}
    /\ human_feedback = None

\* no LLM prompt built
NoPrompt == [llm |-> FALSE, reflection |-> <<>>]

NoRunYet ==
    /\ workflows = <<>>
    /\ infos = <<>>
    /\ threads = <<>>
    /\ calls = [c \in CallIds |-> IdleCall]
    /\ acting = None
    /\ last_prompt = NoPrompt
    /\ all_ordered = <<>>
    /\ disk = <<>>
    /\ route = None
    /\ generated_log = <<>>
    /\ reflector_runs = 0
    /\ last_batch = <<>>

(***************************************************************************)
(* Building the supplied file set.                                         *)
(***************************************************************************)
\* the imports of file i among the import statements <<file index, name>>
ImportsOf(stmts, i) ==
    LET mine == SelectSeq(stmts, LAMBDA st : st[1] = i)
    IN  [k \in 1..Len(mine) |-> mine[k][2]]

MakeFiles(o, ok, stmts) ==
    [i \in 1..Len(o) |->
        [path |-> o[i], parses |-> ok[i],
         imports |-> IF ok[i] THEN ImportsOf(stmts, i) ELSE <<>>]]

(***************************************************************************)
(* Records.                                                                *)
(***************************************************************************)
\* ValidationResult(tool_name=..., passed=...)
ValidationResult(tool, passed) ==
    [kind |-> "ValidationResult", tool_name |-> tool, passed |-> passed]

\* an entry of validation_history that is not a ValidationResult instance
\* (a plain dict with the same keys)
DictEntry(tool, passed) == [kind |-> "dict", tool_name |-> tool, passed |-> passed]

\* isinstance(v, ValidationResult)
IsValidationResult(v) == v.kind = "ValidationResult"

\* ReflectionNote(iteration=..., error_summary=...)
ReflectionNote(iteration, summary) == [iteration |-> iteration, error_summary |-> summary]

\* FileContext(filepath, original_content, modified_content, diff, status);
\* the diff is a function of the two contents and is not kept
FileContext(original, modified, status) ==
    [original_content |-> original, modified_content |-> modified, status |-> status]

\* a history field declared without reducer: the returned list replaces the
\* old one
operator_replace(old, new) == new

\* Annotated[List[...], operator.add]: the list a node returns is appended
operator_add(old, new) == old \o new

(***************************************************************************)
(* Candidate code.  The text of a candidate matters through its identity   *)
(* (hash), whether it is empty and whether it compiles.                    *)
(***************************************************************************)
\* what the code block extracted from an LLM reply can be
LLMOutputs == {"llm_ok", "llm_bad", ""}

\* the result of the LibCST transforms on a file that parses
LibcstOutput == "libcst_out"

\* the LLM-failure fallback: the original content, with a typing import in
\* front; it compiles exactly when the original does
FallbackCode(original) == IF original.parses THEN "fallback_ok" ELSE "fallback_bad"

\* compile(code, "<string>", "exec") succeeds
SyntaxOk(code) == code \in {"llm_ok", "libcst_out", "fallback_ok"}

\* a test "is not None" in the place of truthiness
TruthyNotNone(x) == x # None

\* Python truthiness of an Optional[str]
Truthy(x) == x # None /\ x # ""

(***************************************************************************)
(* Router (graph/router.py).                                               *)
(***************************************************************************)
\* route_after_validation without the isinstance filter on the recent entries
route_after_validation_unfiltered(history, count, maxit) ==
    LET recent_results == LastN(history, RecentWindow)
    IN  IF /\ history # <<>>
           /\ recent_results # <<>>
           /\ \A i \in 1..Len(recent_results) : recent_results[i].passed
        THEN "success"
        ELSE IF count < maxit THEN "reflect" ELSE "escalate"

\* route_after_validation asking for a full window of passed outcomes
route_after_validation_full_window(history, count, maxit) ==
    LET recent_results == SelectSeq(LastN(history, RecentWindow), IsValidationResult)
    IN  IF /\ history # <<>>
           /\ Len(recent_results) = RecentWindow
           /\ \A i \in 1..Len(recent_results) : recent_results[i].passed
        THEN "success"
        ELSE IF count < maxit THEN "reflect" ELSE "escalate"

\* route_after_validation with "iteration_count <= max_iterations" as the retry test
route_after_validation_le(history, count, maxit) ==
    LET recent_results == SelectSeq(LastN(history, RecentWindow), IsValidationResult)
    IN  IF /\ history # <<>>
           /\ recent_results # <<>>
           /\ \A i \in 1..Len(recent_results) : recent_results[i].passed
        THEN "success"
        ELSE IF count <= maxit THEN "reflect" ELSE "escalate"

route_after_validation(history, count, maxit) ==
    LET recent_results == SelectSeq(LastN(history, RecentWindow), IsValidationResult)
    IN  IF /\ history # <<>>
           /\ recent_results # <<>>
           /\ \A i \in 1..Len(recent_results) : recent_results[i].passed
        THEN "success"
        ELSE IF count < maxit THEN "reflect" ELSE "escalate"

\* BaseModel.model_dump: the fields of a pydantic object as a plain dict
model_dump(v) == [v EXCEPT !.kind = "dict"]

\* CheckpointRepository._serialize_state: json.dumps with default_serializer,
\* which writes every pydantic object as the dict of its fields; plain values
\* (strings, integers, lists, dicts) are written as they are.  A FileContext
\* record of the model stands for the object and for its dict alike, as every
\* node reads both forms the same way.
serialize_state(state) ==
    [json |-> [state EXCEPT !.validation_history =
                  [i \in 1..Len(@) |->
                      IF IsValidationResult(@[i]) THEN model_dump(@[i]) ELSE @[i]]]]

\* CheckpointRepository._deserialize_state: json.loads, which builds plain
\* dicts and lists and no pydantic object
deserialize_state(state_json) == state_json.json

\* md5 of the code: distinct texts, distinct digests
CodeHash(code) == <<"md5", code>>

\* check_cycle_detection; no node or edge of create_graph calls it
check_cycle_detection(hashes, generated_code) ==
    IF ~Truthy(generated_code) THEN "continue"
    ELSE IF CodeHash(generated_code) \in hashes THEN "cycle" ELSE "continue"

\* the conditional edges of create_graph
RouteTarget(r) ==
    CASE r = "success"  -> "success_handler"
      [] r = "reflect"  -> "reflector"
      [] r = "escalate" -> "escalate_handler"

(***************************************************************************)
(* Spec: one run of the compiled graph, started by start_workflow.         *)
(***************************************************************************)
WfPaths == {"a.py", "b.py"}

\* start_workflow: create_initial_state, then one FileContext per supplied file
Init ==
    /\ \E o \in Orders(WfPaths) : \E ok \in [1..Len(o) -> BOOLEAN] :
          \E stmts \in SeqsUpTo((1..Len(o)) \X Stems, 1) :
              input_files = MakeFiles(o, ok, stmts)
    /\ InitialAgentState
    /\ NoRunYet
    /\ max_iterations \in 0..MaxIter
    /\ validator_bypassed \in BOOLEAN
    /\ pc = "start"

StartWorkflow ==
    /\ pc = "start"
    /\ files' = [p \in Range(FileKeys(input_files)) |->
                    LET f == input_files[IndexOf(FileKeys(input_files), p)]
                    IN  FileContext([imports |-> f.imports, parses |-> f.parses],
                                    None, "PENDING")]
    /\ pc' = "analyzer"
    /\ UNCHANGED <<manager_vars, last_prompt, disk, human_feedback, reflector_runs,
                   input_files, all_ordered, validator_bypassed, current_file_path,
                   file_queue, file_queue_index, generated_code_snippet,
                   validation_history, reflection_history, iteration_count,
                   max_iterations, approval_status, error_state, code_hashes, route,
                   generated_log, last_batch>>

\* file_contents of analyzer_node: the files map in key order
FileContents ==
    [i \in 1..Len(input_files) |->
        [path |-> input_files[i].path,
         imports |-> files[input_files[i].path].original_content.imports,
         parses |-> files[input_files[i].path].original_content.parses]]

\* analyzer_node giving up on the queue when the LLM call raises
analyzer_node_llm_error_drops_queue(file_contents, llm_ok) ==
    LET dependency_graph == build_dependency_graph(file_contents)
        queue == get_refactoring_order(dependency_graph, FileKeys(file_contents))
    IN  IF llm_ok
        THEN [current_file_path |-> IF queue # <<>> THEN queue[1] ELSE None,
              file_queue        |-> queue,
              file_queue_index  |-> 0,
              human_feedback    |-> "Analysis complete"]
        ELSE [current_file_path |-> None,
              file_queue        |-> <<>>,
              file_queue_index  |-> 0,
              human_feedback    |-> "Analysis fallback (LLM unavailable)"]

\* what analyzer_node returns for a non-empty files map, when the
\* target-identification LLM call returns (llm_ok) and when it raises
analyzer_node(file_contents, llm_ok) ==
    LET dependency_graph == build_dependency_graph(file_contents)
        queue == get_refactoring_order(dependency_graph, FileKeys(file_contents))
        current_file == IF queue # <<>> THEN queue[1] ELSE None
    IN  IF llm_ok
        THEN [current_file_path |-> current_file,
              file_queue        |-> queue,
              file_queue_index  |-> 0,
              human_feedback    |-> "Analysis complete"]
        ELSE [current_file_path |-> current_file,
              file_queue        |-> queue,
              file_queue_index  |-> 0,
              human_feedback    |-> "Analysis fallback (LLM unavailable)"]

\* analyzer_node; the edge analyzer -> generator is unconditional
Analyzer ==
    /\ pc = "analyzer"
    /\ IF DOMAIN files = {}
       THEN /\ error_state' = "No files provided for analysis"
            /\ UNCHANGED <<all_ordered, file_queue, file_queue_index, current_file_path,
                           human_feedback>>
       ELSE \E llm_ok \in BOOLEAN :
               LET update == analyzer_node(FileContents, llm_ok)
               IN  /\ all_ordered' = topological_sort(build_dependency_graph(FileContents))
                   /\ file_queue' = update.file_queue
                   /\ file_queue_index' = update.file_queue_index
                   /\ current_file_path' = update.current_file_path
                   /\ human_feedback' = update.human_feedback
                   /\ UNCHANGED error_state
    /\ pc' = "generator"
    /\ UNCHANGED <<manager_vars, last_prompt, disk, reflector_runs,
                   input_files, validator_bypassed, files, generated_code_snippet,
                   validation_history, reflection_history, iteration_count,
                   max_iterations, approval_status, code_hashes, route, generated_log,
                   last_batch>>

\* GeneratorCandidates without the fallback: no candidate when the LLM call raises
GeneratorCandidatesNoFallback(original, count) ==
    (IF count = 0 /\ original.parses THEN {LibcstOutput} ELSE {})
    \cup LLMOutputs
    \cup {None}

\* the three ways generator_node produces a candidate for a file
GeneratorCandidates(original, count) ==
    \* STRATEGY 1: a LibCST transform matched the goal and changed the code
    (IF count = 0 /\ original.parses THEN {LibcstOutput} ELSE {})
    \* STRATEGY 2: the LLM replied
    \cup LLMOutputs
    \* the LLM call raised: fallback
    \cup {FallbackCode(original)}

\* generator_node taking the oldest reflection into its retry prompt
generator_prompt_first_note(history, count) ==
    IF history # <<>> /\ count > 0 THEN <<history[1]>> ELSE <<>>

\* the reflection generator_node puts in front of its generation prompt:
\* on a retry, reflection_history[-1]
generator_prompt(history, count) ==
    IF history # <<>> /\ count > 0 THEN <<history[Len(history)]>> ELSE <<>>

\* generator_node; the edge generator -> validator is unconditional
Generator ==
    /\ pc = "generator"
    /\ Len(generated_log) < MaxGenerations
    /\ IF current_file_path = None \/ current_file_path \notin DOMAIN files
       THEN /\ error_state' = "No file to generate"
            /\ generated_log' = Append(generated_log, None)
            /\ last_prompt' = NoPrompt
            /\ UNCHANGED <<files, generated_code_snippet>>
       ELSE LET file_ctx == files[current_file_path]
            IN  \E code \in GeneratorCandidates(file_ctx.original_content, iteration_count) :
                    /\ files' = [files EXCEPT ![current_file_path] =
                                    FileContext(file_ctx.original_content, code, "IN_PROGRESS")]
                    /\ generated_code_snippet' = code
                    /\ generated_log' = Append(generated_log, code)
                    /\ last_prompt' =
                          IF code = LibcstOutput THEN NoPrompt
                          ELSE [llm |-> TRUE,
                                reflection |-> generator_prompt(reflection_history,
                                                                iteration_count)]
                    /\ UNCHANGED error_state
    /\ pc' = "validator"
    /\ UNCHANGED <<manager_vars, disk, human_feedback, reflector_runs,
                   input_files, all_ordered, validator_bypassed, current_file_path,
                   file_queue, file_queue_index, validation_history,
                   reflection_history, iteration_count, max_iterations,
                   approval_status, code_hashes, route, last_batch>>

\* the code validator_node looks at: the snippet, else the file's modified_content
CodeToValidate ==
    IF Truthy(generated_code_snippet) THEN generated_code_snippet
    ELSE IF current_file_path # None /\ current_file_path \in DOMAIN files
         THEN files[current_file_path].modified_content
         ELSE generated_code_snippet

\* validator_node as shipped: "TEMPORARY: Always pass validation for debugging"
ValidatorBypass == {<<ValidationResult("validator", TRUE)>>}

\* validator_node's original logic (kept in the source below the bypass):
\* no code -> one failure; syntax error -> the failed syntax check alone;
\* otherwise syntax check, ruff and, when installed, pyright
ValidatorOriginal(code) ==
    IF ~Truthy(code) THEN {<<ValidationResult("validator", FALSE)>>}
    ELSE IF ~SyntaxOk(code) THEN {<<ValidationResult("syntax_check", FALSE)>>}
    ELSE {<<ValidationResult("syntax_check", TRUE), ValidationResult("ruff", TRUE)>>,
          <<ValidationResult("syntax_check", TRUE), ValidationResult("ruff", TRUE),
            ValidationResult("pyright", TRUE)>>}

\* validator_node, the operator.add reducer of validation_history, and the
\* conditional edge evaluated on the merged state
Validator ==
    /\ pc = "validator"
    /\ \E batch \in (IF validator_bypassed THEN ValidatorBypass
                     ELSE ValidatorOriginal(CodeToValidate)) :
          /\ last_batch' = batch
          /\ validation_history' = operator_add(validation_history, batch)
          /\ route' = route_after_validation(validation_history \o batch,
                                             iteration_count, max_iterations)
    /\ pc' = RouteTarget(route')
    /\ UNCHANGED <<manager_vars, last_prompt, disk, human_feedback, reflector_runs,
                   input_files, all_ordered, validator_bypassed, files,
                   current_file_path, file_queue, file_queue_index,
                   generated_code_snippet, reflection_history, iteration_count,
                   max_iterations, approval_status, error_state, code_hashes,
                   generated_log>>

\* recent_failures of reflector_node
RecentFailures(history) ==
    SelectSeq(LastN(history, RecentWindow),
              LAMBDA v : IsValidationResult(v) /\ ~v.passed)

\* ReflectorNotes with no note written when the reflection LLM call raises
ReflectorNotesSilentOnError(history, count) ==
    IF history = <<>> THEN {<<ReflectionNote(count, "No validation results available")>>}
    ELSE IF RecentFailures(history) = <<>> THEN {<<>>}
    ELSE {<<ReflectionNote(count, "llm")>>, <<>>}

\* what reflector_node returns for reflection_history (appended by the reducer)
ReflectorNotes(history, count) ==
    IF history = <<>> THEN {<<ReflectionNote(count, "No validation results available")>>}
    ELSE IF RecentFailures(history) = <<>> THEN {<<>>}
    ELSE {<<ReflectionNote(count, "llm")>>, <<ReflectionNote(count, "Reflection failed")>>}

\* reflector_node without the increment of iteration_count
ReflectorCountStuck(count) == count

\* reflector_node counting one reflection twice
ReflectorCountTwice(count) == count + 2

\* the iteration_count reflector_node returns, the same in its four branches
ReflectorCount(count) == count + 1

\* reflector_node keeping the counter when there is no recent failure
reflector_node_idle_keeps_count(history, count) ==
    {[iteration_count    |-> IF history # <<>> /\ RecentFailures(history) = <<>>
                             THEN count ELSE ReflectorCount(count),
      reflection_history |-> notes,
      human_feedback     |-> IF notes = <<ReflectionNote(count, "llm")>>
                             THEN "reflection_text" ELSE None] :
        notes \in ReflectorNotes(history, count)}

\* the dicts reflector_node can return; human_feedback = None: key absent
reflector_node(history, count) ==
    {[iteration_count    |-> ReflectorCount(count),
      reflection_history |-> notes,
      human_feedback     |-> IF notes = <<ReflectionNote(count, "llm")>>
                             THEN "reflection_text" ELSE None] :
        notes \in ReflectorNotes(history, count)}

\* reflector_node; the edge reflector -> generator is unconditional
Reflector ==
    /\ pc = "reflector"
    /\ \E r \in reflector_node(validation_history, iteration_count) :
          /\ reflection_history' = operator_add(reflection_history, r.reflection_history)
          /\ iteration_count' = r.iteration_count
          /\ human_feedback' = IF r.human_feedback # None THEN r.human_feedback
                               ELSE human_feedback
    /\ reflector_runs' = reflector_runs + 1
    /\ pc' = "generator"
    /\ UNCHANGED <<manager_vars, last_prompt, disk, input_files, all_ordered, validator_bypassed, files,
                   current_file_path, file_queue, file_queue_index,
                   generated_code_snippet, validation_history, max_iterations,
                   approval_status, error_state, code_hashes, route, generated_log,
                   last_batch>>

\* _success_handler putting the file back in the queue's initial status
success_file_context_requeued(file_ctx) ==
    FileContext(file_ctx.original_content, file_ctx.modified_content, "PENDING")

\* _success_handler taking the accepted candidate as the file's new original
success_file_context_promoted(file_ctx) ==
    FileContext([imports |-> <<>>, parses |-> SyntaxOk(file_ctx.modified_content)],
                file_ctx.modified_content, "COMPLETED")

\* the FileContext _success_handler writes for the current file
success_file_context(file_ctx) ==
    FileContext(file_ctx.original_content, file_ctx.modified_content, "COMPLETED")

\* _success_handler, then END
SuccessHandler ==
    /\ pc = "success_handler"
    /\ IF current_file_path # None /\ current_file_path \in DOMAIN files
       THEN files' = [files EXCEPT ![current_file_path] = success_file_context(@)]
       ELSE UNCHANGED files
    /\ approval_status' = "PENDING"
    /\ pc' = "END"
    /\ UNCHANGED <<manager_vars, last_prompt, disk, human_feedback, reflector_runs,
                   input_files, all_ordered, validator_bypassed, current_file_path,
                   file_queue, file_queue_index, generated_code_snippet,
                   validation_history, reflection_history, iteration_count,
                   max_iterations, error_state, code_hashes, route, generated_log,
                   last_batch>>

\* _escalate_handler, then END
EscalateHandler ==
    /\ pc = "escalate_handler"
    /\ error_state' = "Max iterations reached without passing validation"
    /\ approval_status' = "FAILED"
    /\ pc' = "END"
    /\ UNCHANGED <<manager_vars, last_prompt, disk, human_feedback, reflector_runs,
                   input_files, all_ordered, validator_bypassed, files,
                   current_file_path, file_queue, file_queue_index,
                   generated_code_snippet, validation_history, reflection_history,
                   iteration_count, max_iterations, code_hashes, route,
                   generated_log, last_batch>>

\* route_next_file naming the file at the old index as the next file
route_next_file_same_file(queue, current_index) ==
    LET next_index == current_index + 1
    IN  IF next_index < Len(queue)
        THEN [current_file_path |-> queue[current_index + 1],
              file_queue_index  |-> next_index,
              iteration_count   |-> 0]
        ELSE [file_queue_index  |-> next_index]

\* route_next_file: the state update it returns
route_next_file(queue, current_index) ==
    LET next_index == current_index + 1
    IN  IF next_index < Len(queue)
        THEN [current_file_path |-> queue[next_index + 1],
              file_queue_index  |-> next_index,
              iteration_count   |-> 0]
        ELSE [file_queue_index  |-> next_index]

\* route_next_file applied to the state a finished run left; no node or edge
\* of create_graph calls it
RouteNextFile ==
    /\ pc = "END"
    /\ file_queue_index < Cardinality(WfPaths) + 2
    /\ LET update == route_next_file(file_queue, file_queue_index)
       IN  /\ file_queue_index' = update.file_queue_index
           /\ IF "current_file_path" \in DOMAIN update
              THEN /\ current_file_path' = update.current_file_path
                   /\ iteration_count' = update.iteration_count
              ELSE UNCHANGED <<current_file_path, iteration_count>>
    /\ UNCHANGED <<manager_vars, last_prompt, disk, human_feedback, reflector_runs,
                   input_files, all_ordered, validator_bypassed, files, file_queue,
                   generated_code_snippet, validation_history, reflection_history,
                   max_iterations, approval_status, error_state, code_hashes, route,
                   pc, generated_log, last_batch>>

\* what the reviewer's reply to the interrupt can be; None: no reply (or an
\* empty one); "MISSING": a reply without an action key; "LGTM": an action
\* that is no ReviewAction
HumanResponses == {None, "APPROVE", "MODIFY", "REJECT", "SKIP", "MISSING", "LGTM"}

\* human_response.get("action", ReviewAction.REJECT.value)
response_action(response) == IF response = "MISSING" THEN "REJECT" ELSE response

\* human_review_node approving every reply it does not know
human_review_node_fails_open(response) ==
    IF response = None THEN [approval_status |-> "PENDING"]
    ELSE IF response_action(response) = "MODIFY"
         THEN [approval_status |-> "PENDING", human_feedback |-> "feedback"]
    ELSE IF response_action(response) = "REJECT"
         THEN [approval_status |-> "REJECTED", human_feedback |-> "feedback"]
    ELSE [approval_status |-> "APPROVED", human_feedback |-> "feedback"]

\* human_review_node: the state update for a reply
human_review_node(response) ==
    LET action == response_action(response)
    IN
    IF response = None THEN [approval_status |-> "PENDING"]
    ELSE IF action = "APPROVE"
         THEN [approval_status |-> "APPROVED", human_feedback |-> "feedback"]
    ELSE IF action = "MODIFY"
         THEN [approval_status |-> "PENDING", human_feedback |-> "feedback"]
    ELSE [approval_status |-> "REJECTED", human_feedback |-> "feedback"]

\* human_review_node applied to the state a finished run left; no node or
\* edge of create_graph calls it
HumanReview ==
    /\ pc = "END"
    /\ \E action \in HumanResponses :
          LET update == human_review_node(action)
          IN  /\ approval_status' = update.approval_status
              /\ human_feedback' = IF "human_feedback" \in DOMAIN update
                                   THEN update.human_feedback ELSE human_feedback
    /\ UNCHANGED <<manager_vars, last_prompt, disk, reflector_runs,
                   input_files, all_ordered, validator_bypassed, files,
                   current_file_path, file_queue, file_queue_index,
                   generated_code_snippet, validation_history, reflection_history,
                   iteration_count, max_iterations, error_state, code_hashes, route,
                   pc, generated_log, last_batch>>

\* committer_node applied to the state a finished run left; no node or edge
\* of create_graph calls it
Committer ==
    /\ pc = "END"
    /\ IF approval_status # "APPROVED"
       THEN /\ error_state' = "Cannot commit: changes not approved"
            /\ UNCHANGED <<files, human_feedback, disk>>
       ELSE IF current_file_path = None \/ current_file_path \notin DOMAIN files
       THEN /\ error_state' = "No file to commit"
            /\ UNCHANGED <<files, human_feedback, disk>>
       ELSE IF ~Truthy(files[current_file_path].modified_content)
       THEN /\ error_state' = "No modified content to commit"
            /\ UNCHANGED <<files, human_feedback, disk>>
       ELSE \E write_ok \in BOOLEAN :
               IF write_ok
               THEN /\ disk' = [q \in DOMAIN disk \cup {current_file_path} |->
                                  IF q = current_file_path
                                  THEN files[current_file_path].modified_content
                                  ELSE disk[q]]
                    /\ files' = [files EXCEPT ![current_file_path] =
                                    FileContext(@.original_content, @.modified_content,
                                                "COMPLETED")]
                    /\ human_feedback' = "Successfully committed changes"
                    /\ UNCHANGED error_state
               ELSE /\ error_state' = "Commit failed"
                    /\ UNCHANGED <<files, human_feedback, disk>>
    /\ UNCHANGED <<manager_vars, last_prompt, reflector_runs,
                   input_files, all_ordered, validator_bypassed, current_file_path,
                   file_queue, file_queue_index, generated_code_snippet,
                   validation_history, reflection_history, iteration_count,
                   max_iterations, approval_status, code_hashes, route, pc,
                   generated_log, last_batch>>

Next ==
    \/ StartWorkflow
    \/ Analyzer
    \/ Generator
    \/ Validator
    \/ Reflector
    \/ SuccessHandler
    \/ EscalateHandler

Spec == Init /\ [][Next]_vars

\* the workflows of Init whose files import nothing; no step after the
\* analyzer reads the dependency order
InitNoImports ==
    /\ Init
    /\ \A i \in 1..Len(input_files) : input_files[i].imports = <<>>

\* the graph runs each node it reaches: no step is postponed forever
FairSpec == InitNoImports /\ [][Next]_vars /\ WF_vars(Next)

(***************************************************************************)
(* SpecRouter: route_after_validation on every bounded state.              *)
(***************************************************************************)
\* what an entry of a hand-built validation_history can be
HistoryEntries ==
    {ValidationResult("ruff", TRUE), ValidationResult("ruff", FALSE),
     DictEntry("ruff", TRUE)}

\* a state as the tests build it: create_initial_state, then the three fields
\* the router reads are overwritten
InitRouter ==
    /\ input_files = <<>>
    /\ files = <<>>
    /\ current_file_path = None
    /\ file_queue = <<>>
    /\ file_queue_index = 0
    /\ generated_code_snippet = None
    /\ validation_history \in SeqsUpTo(HistoryEntries, MaxHist)
    /\ reflection_history = <<>>
    /\ iteration_count \in 0..(MaxIter + 1)
    /\ max_iterations \in 0..(MaxIter + 1)
    /\ approval_status = "PENDING"
    /\ error_state = None
    /\ code_hashes = {}
    /\ human_feedback = None
    /\ NoRunYet
    /\ validator_bypassed = TRUE
    /\ pc = "route"

RouteOnly ==
    /\ pc = "route"
    /\ route' = route_after_validation(validation_history, iteration_count, max_iterations)
    /\ pc' = "routed"
    /\ UNCHANGED <<manager_vars, last_prompt, disk, human_feedback, reflector_runs,
                   input_files, all_ordered, validator_bypassed, files,
                   current_file_path, file_queue, file_queue_index,
                   generated_code_snippet, validation_history, reflection_history,
                   iteration_count, max_iterations, approval_status, error_state,
                   code_hashes, generated_log, last_batch>>

NextRouter == RouteOnly

SpecRouter == InitRouter /\ [][NextRouter]_vars

(***************************************************************************)
(* SpecReflector: the workflow runs of Spec, and the graph entered at the   *)
(* reflector with a hand-built state, which reaches the branches of         *)
(* reflector_node that a run from start_workflow does not.                  *)
(***************************************************************************)
\* a state as the tests build it: create_initial_state, then the fields the
\* reflector reads are overwritten
InitReflector ==
    /\ input_files = <<>>
    /\ files = <<>>
    /\ current_file_path = None
    /\ file_queue = <<>>
    /\ file_queue_index = 0
    /\ generated_code_snippet = None
    /\ validation_history \in SeqsUpTo(HistoryEntries, MaxHist)
    /\ reflection_history = <<>>
    /\ iteration_count \in 0..MaxIter
    /\ max_iterations = MaxIter
    /\ approval_status = "PENDING"
    /\ error_state = None
    /\ code_hashes = {}
    /\ human_feedback = None
    /\ NoRunYet
    /\ validator_bypassed \in BOOLEAN
    /\ pc = "reflector"

SpecReflector == (Init \/ InitReflector) /\ [][Next]_vars

(***************************************************************************)
(* SpecNodes: SpecReflector, with route_next_file applied to the states    *)
(* finished runs leave.                                                    *)
(***************************************************************************)
NextNodes ==
    \/ Next
    \/ RouteNextFile

SpecNodes == (Init \/ InitReflector) /\ [][NextNodes]_vars

(***************************************************************************)
(* SpecReview: the workflow runs of Spec, with human_review_node and       *)
(* committer_node applied to the states finished runs leave.               *)
(***************************************************************************)
\* workflows one retry short of the largest budget: the review steps read
\* what a run left, not how many attempts it took
InitReview ==
    /\ InitNoImports
    /\ max_iterations < MaxIter

NextReview ==
    \/ Next
    \/ HumanReview
    \/ Committer

SpecReview == InitReview /\ [][NextReview]_vars

(***************************************************************************)
(* SpecOrder: the dependency orderer on every bounded file set.            *)
(***************************************************************************)
\* every file set over Paths: any key order, parseable or not, with at most
\* MaxImports import statements spread over the files
InitOrder ==
    /\ \E o \in Orders(Paths) : \E ok \in [1..Len(o) -> BOOLEAN] :
          \E stmts \in SeqsUpTo((1..Len(o)) \X Stems, MaxImports) :
              input_files = MakeFiles(o, ok, stmts)
    /\ InitialAgentState
    /\ NoRunYet
    /\ max_iterations = 0
    /\ validator_bypassed = TRUE
    /\ pc = "order"

\* the orderer as analyzer_node calls it
OrderFiles ==
    /\ pc = "order"
    /\ all_ordered' = topological_sort(build_dependency_graph(input_files))
    /\ file_queue' = get_refactoring_order(build_dependency_graph(input_files),
                                           FileKeys(input_files))
    /\ pc' = "ordered"
    /\ UNCHANGED <<manager_vars, last_prompt, disk, human_feedback, reflector_runs,
                   input_files, validator_bypassed, files, current_file_path,
                   file_queue_index, generated_code_snippet, validation_history,
                   reflection_history, iteration_count, max_iterations,
                   approval_status, error_state, code_hashes, route, generated_log,
                   last_batch>>

NextOrder == OrderFiles

SpecOrder == InitOrder /\ [][NextOrder]_vars

(***************************************************************************)
(* SpecManager: the WorkflowManager (api/workflow_manager.py) serving      *)
(* overlapping start_workflow, resume_workflow and cancel_workflow         *)
(* requests.  Every call awaits graph.ainvoke, so the node steps of two    *)
(* calls interleave; the manager holds no lock.                            *)
(***************************************************************************)
WorkflowIds == {"w1", "w2"}

\* the max_iterations the start_workflow calls are given here
ManagerMaxIterations == 1

\* the content of the file the start_workflow calls are given here
ManagerOriginal == [imports |-> <<>>, parses |-> TRUE]

\* what graph.ainvoke can raise, by what the handlers look for in its text
Exceptions == {"interrupt", "failure"}

\* calls are numbered in the order they are made
InCallOrder(c) == \A d \in CallIds : d < c => calls[d].stage # "idle"

\* the ids a start_workflow call can be given: one already in use, or a
\* new one (new ids are taken in the order w1, w2)
StartIds ==
    DOMAIN workflows \cup
        (IF "w1" \notin DOMAIN workflows THEN {"w1"}
         ELSE IF "w2" \notin DOMAIN workflows THEN {"w2"} ELSE {})

\* the one file of the workflows started here
ManagerFile == "a.py"

\* every workflow on one thread, whatever its id
thread_id_shared(workflow_id) == <<"thread_", "shared">>

\* thread_id = f"thread_{workflow_id}"
thread_id(workflow_id) == <<"thread_", workflow_id>>

\* f with the key k set to v, as a dict assignment does
DictSet(f, k, v) == [x \in DOMAIN f \cup {k} |-> IF x = k THEN v ELSE f[x]]

\* the state start_workflow hands to the graph: create_initial_state, then
\* one FileContext per supplied file.  human_feedback, which no node reads,
\* is left out of the record
start_state(original, max_iter) ==
    [node                   |-> "analyzer",
     files                  |-> [q \in {ManagerFile} |->
                                    FileContext(original, None, "PENDING")],
     current_file_path      |-> None,
     file_queue             |-> <<>>,
     file_queue_index       |-> 0,
     generated_code_snippet |-> None,
     validation_history     |-> <<>>,
     reflection_history     |-> <<>>,
     iteration_count        |-> 0,
     max_iterations         |-> max_iter,
     approval_status        |-> "PENDING",
     error_state            |-> None]

\* one node of the compiled graph run on the state st of a run over a
\* non-empty files map: the states the node and the edge after it can give
graph_step(st) ==
    CASE st.node = "analyzer" ->
            LET file_contents ==
                    <<[path    |-> ManagerFile,
                       imports |-> st.files[ManagerFile].original_content.imports,
                       parses  |-> st.files[ManagerFile].original_content.parses]>>
            IN  {[st EXCEPT !.node = "generator",
                            !.current_file_path =
                                analyzer_node(file_contents, llm_ok).current_file_path,
                            !.file_queue = analyzer_node(file_contents, llm_ok).file_queue,
                            !.file_queue_index =
                                analyzer_node(file_contents, llm_ok).file_queue_index] :
                    llm_ok \in BOOLEAN}
      [] st.node = "generator" ->
            LET file_ctx == st.files[st.current_file_path]
            IN  {[st EXCEPT !.node = "validator",
                            !.files[st.current_file_path] =
                                FileContext(file_ctx.original_content, code, "IN_PROGRESS"),
                            !.generated_code_snippet = code] :
                    code \in GeneratorCandidates(file_ctx.original_content,
                                                 st.iteration_count)}
      [] st.node = "validator" ->
            LET code == IF Truthy(st.generated_code_snippet)
                        THEN st.generated_code_snippet
                        ELSE st.files[st.current_file_path].modified_content
            IN  {[st EXCEPT !.node = RouteTarget(route_after_validation(
                                         operator_add(st.validation_history, batch),
                                         st.iteration_count, st.max_iterations)),
                            !.validation_history = operator_add(@, batch)] :
                    batch \in (IF validator_bypassed THEN ValidatorBypass
                               ELSE ValidatorOriginal(code))}
      [] st.node = "reflector" ->
            {[st EXCEPT !.node = "generator",
                        !.reflection_history = operator_add(@, r.reflection_history),
                        !.iteration_count = r.iteration_count] :
                r \in reflector_node(st.validation_history, st.iteration_count)}
      [] st.node = "success_handler" ->
            {[st EXCEPT !.node = "END",
                        !.files[st.current_file_path] = success_file_context(@),
                        !.approval_status = "PENDING"]}
      [] st.node = "escalate_handler" ->
            {[st EXCEPT !.node = "END",
                        !.error_state = "Max iterations reached without passing validation",
                        !.approval_status = "FAILED"]}

\* no workflow, no call
InitManager ==
    /\ input_files = <<>>
    /\ InitialAgentState
    /\ NoRunYet
    /\ max_iterations = 0
    /\ validator_bypassed \in BOOLEAN
    /\ pc = "manager"

\* start_workflow up to its await of graph.ainvoke: the initial state, the
\* WorkflowInfo with status RUNNING, and self._workflows[workflow_id] = info
StartCall(c) ==
    /\ pc = "manager"
    /\ calls[c].stage = "idle"
    /\ InCallOrder(c)
    /\ \E workflow_id \in StartIds :
          /\ infos' = DictSet(infos, c, [status |-> "RUNNING", current_file |-> None,
                                         iteration_count |-> 0,
                                         error_message |-> None])
          /\ workflows' = DictSet(workflows, workflow_id, c)
          /\ calls' = [calls EXCEPT ![c] =
                          [kind |-> "start", stage |-> "invoking",
                           workflow_id |-> workflow_id, info |-> c,
                           st |-> start_state(ManagerOriginal,
                                              ManagerMaxIterations)]]
          /\ acting' = workflow_id
    /\ UNCHANGED <<graph_vars, threads>>

\* resume_workflow up to its await of graph.ainvoke(None, config, ...).  An
\* unknown workflow id raises ValueError and changes nothing.  What
\* graph.ainvoke does with a None input is the graph library's: it raises,
\* or it goes on from what is stored for the thread.  The reviewer's action
\* is handed to ainvoke and read by no node of the graph
ResumeCall(c) ==
    /\ pc = "manager"
    /\ calls[c].stage = "idle"
    /\ InCallOrder(c)
    /\ \E workflow_id \in DOMAIN workflows :
          /\ \/ \E exception \in Exceptions :
                   calls' = [calls EXCEPT ![c] =
                               [kind |-> "resume", stage |-> "raised",
                                workflow_id |-> workflow_id,
                                info |-> workflows[workflow_id],
                                exception |-> exception]]
             \/ /\ thread_id(workflow_id) \in DOMAIN threads
                /\ calls' = [calls EXCEPT ![c] =
                               [kind |-> "resume", stage |-> "invoking",
                                workflow_id |-> workflow_id,
                                info |-> workflows[workflow_id],
                                st |-> threads[thread_id(workflow_id)]]]
          /\ acting' = workflow_id
    /\ UNCHANGED <<graph_vars, workflows, infos, threads>>

\* graph.ainvoke raises out of a started run (a node or the checkpointer
\* failed, or the graph was interrupted); what the run holds is lost to the
\* call.  The handlers read the exception's text only, so the run is taken
\* to raise in its first superstep
RaiseCall(c) ==
    /\ pc = "manager"
    /\ calls[c].stage = "invoking"
    /\ calls[c].st.node = "analyzer"
    /\ \E exception \in Exceptions :
          calls' = [calls EXCEPT ![c] =
                      [kind |-> calls[c].kind, stage |-> "raised",
                       workflow_id |-> calls[c].workflow_id,
                       info |-> calls[c].info, exception |-> exception]]
    /\ acting' = calls[c].workflow_id
    /\ UNCHANGED <<graph_vars, workflows, infos, threads>>

\* one superstep of a call's graph.ainvoke: the next node runs on the state
\* the run holds, and the result is stored for the thread
NodeStep(c) ==
    /\ pc = "manager"
    /\ calls[c].stage = "invoking"
    /\ calls[c].st.node # "END"
    /\ \E s2 \in graph_step(calls[c].st) :
          /\ calls' = [calls EXCEPT ![c].st = s2]
          /\ threads' = DictSet(threads, thread_id(calls[c].workflow_id), s2)
    /\ acting' = calls[c].workflow_id
    /\ UNCHANGED <<graph_vars, workflows, infos>>

\* the status both calls report for an exception out of graph.ainvoke:
\* "interrupt" in str(e).lower()
exception_status(exception) ==
    IF exception = "interrupt" THEN "AWAITING_REVIEW" ELSE "ERROR"

\* start_workflow looking at approval_status alone, as resume_workflow does
start_status_ignores_error(result) ==
    IF result.approval_status = "APPROVED" THEN "COMPLETED" ELSE "AWAITING_REVIEW"

\* start_workflow reporting every run without error as COMPLETED
start_status_completed_unreviewed(result) ==
    IF result.error_state # None THEN "ERROR" ELSE "COMPLETED"

\* the status start_workflow reports for the result of the run
start_status(result) ==
    IF result.error_state # None THEN "ERROR"
    ELSE IF result.approval_status = "APPROVED" THEN "COMPLETED"
    ELSE "AWAITING_REVIEW"

\* the status resume_workflow reports for the result of the run
resume_status(result) ==
    IF result.approval_status = "APPROVED" THEN "COMPLETED" ELSE "AWAITING_REVIEW"

\* the rest of start_workflow / resume_workflow after graph.ainvoke: the
\* call's WorkflowInfo object takes the outcome.  An exception whose text
\* holds "interrupt" gives AWAITING_REVIEW, any other ERROR
ReturnCall(c) ==
    /\ pc = "manager"
    /\ \/ /\ calls[c].stage = "invoking"
          /\ calls[c].st.node = "END"
          /\ infos' = [infos EXCEPT ![calls[c].info] =
                          IF calls[c].kind = "start"
                          THEN [status          |-> start_status(calls[c].st),
                                current_file    |-> calls[c].st.current_file_path,
                                iteration_count |-> calls[c].st.iteration_count,
                                error_message   |-> calls[c].st.error_state]
                          ELSE [@ EXCEPT !.status = resume_status(calls[c].st)]]
       \/ /\ calls[c].stage = "raised"
          /\ infos' = [infos EXCEPT ![calls[c].info] =
                          [@ EXCEPT !.status = exception_status(calls[c].exception),
                                    !.error_message =
                                        IF exception_status(calls[c].exception) = "ERROR"
                                        THEN calls[c].exception ELSE @]]
    /\ calls' = [calls EXCEPT ![c].stage = "done"]
    /\ acting' = calls[c].workflow_id
    /\ UNCHANGED <<graph_vars, workflows, threads>>

\* cancel_workflow that also forgets what the graph stored for the workflow
CancelWorkflowForgetsState(workflow_id) ==
    /\ pc = "manager"
    /\ workflow_id \in DOMAIN workflows
    /\ infos' = [infos EXCEPT ![workflows[workflow_id]].status = "CANCELLED"]
    /\ threads' = [t \in DOMAIN threads \ {thread_id(workflow_id)} |-> threads[t]]
    /\ acting' = workflow_id
    /\ UNCHANGED <<graph_vars, workflows, calls>>

\* cancel_workflow (DELETE /workflows/{workflow_id}): an unknown id gives
\* 404; otherwise info.status = "CANCELLED"
CancelWorkflow(workflow_id) ==
    /\ pc = "manager"
    /\ workflow_id \in DOMAIN workflows
    /\ infos' = [infos EXCEPT ![workflows[workflow_id]].status = "CANCELLED"]
    /\ acting' = workflow_id
    /\ UNCHANGED <<graph_vars, workflows, threads, calls>>

NextManager ==
    \/ \E c \in CallIds : StartCall(c)
    \/ \E c \in CallIds : ResumeCall(c)
    \/ \E c \in CallIds : RaiseCall(c)
    \/ \E c \in CallIds : NodeStep(c)
    \/ \E c \in CallIds : ReturnCall(c)
    \/ \E workflow_id \in WorkflowIds : CancelWorkflow(workflow_id)

SpecManager == InitManager /\ [][NextManager]_vars

(***************************************************************************)
(* SpecApproval: the two places approval is decided and reported: the      *)
(* graph runs with the human gate of SpecReview, and the manager calls of  *)
(* SpecManager.                                                            *)
(***************************************************************************)
InitApproval == InitReview \/ InitManager

NextApproval ==
    \/ NextReview
    \/ NextManager

SpecApproval == InitApproval /\ [][NextApproval]_vars

(***************************************************************************)
(* Properties of the dependency orderer (SpecOrder).                       *)
(***************************************************************************)
InputGraph == build_dependency_graph(input_files)

\* one round of the transitive closure of a relation over nodes
ComposeOnce(R, nodes) ==
    R \cup {<<a, c>> \in nodes \X nodes : \E b \in nodes : <<a, b>> \in R /\ <<b, c>> \in R}

RECURSIVE ClosureSteps(_, _, _)
ClosureSteps(R, nodes, k) ==
    IF k = 0 THEN R ELSE ClosureSteps(ComposeOnce(R, nodes), nodes, k - 1)

\* no file imports itself through a chain of recorded edges
Acyclic(graph) ==
    LET nodes == Range(graph.modules)
        reach == ClosureSteps(Range(graph.edges), nodes, Cardinality(nodes))
    IN  \A n \in nodes : <<n, n>> \notin reach

\* supplied file b imports supplied file a (both analysed, a # b)
Imports(b, a) ==
    /\ a.path # b.path
    /\ a.parses /\ b.parses
    /\ Stem(a.path) \in Range(b.imports)

\* C9: dependencies are queued before their dependents: whenever supplied file
\* b imports supplied file a and the imports are acyclic, a precedes b in the
\* list get_refactoring_order returns.
C9_DependenciesFirst ==
    (pc = "ordered" /\ Acyclic(InputGraph)) =>
        \A i, j \in 1..Len(input_files) :
            Imports(input_files[j], input_files[i]) =>
                IndexOf(file_queue, input_files[i].path)
                    < IndexOf(file_queue, input_files[j].path)

IsPermutationOf(s, S) ==
    /\ Range(s) = S
    /\ Len(s) = Cardinality(S)

\* C11: for every input file set, import cycles and unparseable files
\* included, get_refactoring_order returns a permutation of the supplied
\* files: every supplied file exactly once and no other path.
C11_OrderIsPermutation ==
    pc = "ordered" => IsPermutationOf(file_queue, Range(FileKeys(input_files)))

\* three files were ordered: two import each other and the third does not parse
C11_Witness ==
    /\ pc = "ordered"
    /\ Len(input_files) = 3
    /\ ~Acyclic(InputGraph)
    /\ \E i \in 1..Len(input_files) : ~input_files[i].parses
    /\ Len(all_ordered) = 2

(***************************************************************************)
(* Properties of the router (SpecRouter).                                  *)
(***************************************************************************)
\* the positions of the last five items of validation_history
WindowIndices == {i \in 1..Len(validation_history) : i > Len(validation_history) - 5}

\* the ValidationResult entries among the last five items are non-empty and
\* all have passed = true
RecentAllPassed ==
    /\ \E i \in WindowIndices : validation_history[i].kind = "ValidationResult"
    /\ \A i \in WindowIndices :
          validation_history[i].kind = "ValidationResult" => validation_history[i].passed

JustRouted == pc \in {"success_handler", "reflector", "escalate_handler"}

\* every validation pass so far has failed
EveryPassFailed ==
    /\ validation_history # <<>>
    /\ \A i \in 1..Len(validation_history) : ~validation_history[i].passed

\* C2: in every reachable state of a workflow started with iteration_count = 0
\* and max_iterations >= 0, iteration_count <= max_iterations.
C2_CountWithinCeiling == iteration_count <= max_iterations

\* the counter has climbed to a positive ceiling and the router escalates
C2_Witness ==
    /\ pc = "escalate_handler"
    /\ current_file_path \in DOMAIN files
    /\ max_iterations = MaxIter
    /\ iteration_count = max_iterations
    /\ Len(reflection_history) = MaxIter

\* C3: the self-correction loop terminates: whatever the validator's verdicts
\* and whether the LLM calls return or raise, the graph reaches END through
\* success_handler or escalate_handler, after at most max_iterations + 1
\* executions of the generator.
C3_LoopTerminates ==
    /\ <>(pc = "END" /\ route \in {"success", "escalate"})
    /\ [](Len(generated_log) <= max_iterations + 1)

\* a run that used its whole budget, with an LLM failure on the way, has ended
C3_Witness ==
    /\ pc = "END"
    /\ max_iterations = MaxIter
    /\ Len(generated_log) = max_iterations + 1
    /\ "fallback_bad" \in Range(generated_log)
    /\ \E i \in 1..Len(reflection_history) :
          reflection_history[i].error_summary = "Reflection failed"

\* C4: if every validation pass fails, the router chooses "reflect" for the
\* first max_iterations failed passes and "escalate" at the
\* (max_iterations + 1)-th, and iteration_count = max_iterations when the
\* escalate transition is taken.
C4_EscalateAfterBudget ==
    (EveryPassFailed /\ pc \in {"success_handler", "reflector", "escalate_handler"}) =>
        /\ Len(validation_history) <= max_iterations => route = "reflect"
        /\ Len(validation_history) = max_iterations + 1 => route = "escalate"
        /\ Len(validation_history) <= max_iterations + 1
        /\ route = "escalate" => iteration_count = max_iterations

\* max_iterations = 2: two reflections, escalation on the third failure
C4_Witness ==
    /\ pc = "escalate_handler"
    /\ current_file_path \in DOMAIN files
    /\ max_iterations = 2
    /\ EveryPassFailed
    /\ Len(validation_history) = 3
    /\ Len(reflection_history) = 2
    /\ iteration_count = 2

\* C12: every execution of reflector_node adds exactly 1 to iteration_count,
\* in each of its branches, and no other step changes iteration_count; hence
\* iteration_count grows in step with the number of reflector executions
\* (from a fresh state, N reflections give iteration_count = N).
C12_ReflectorAddsOne ==
    [][/\ pc = "reflector" => iteration_count' = iteration_count + 1
       /\ pc # "reflector" => iteration_count' = iteration_count
       /\ iteration_count' - reflector_runs' = iteration_count - reflector_runs]_vars

\* the reflector has run twice from a count of 0, once without a failure to
\* reflect on (no note written) and once with one
C12_Witness ==
    /\ reflector_runs = 2
    /\ iteration_count = 2
    /\ Len(reflection_history) = 1
    /\ pc = "generator"

\* C13: every reflection of a workflow run appends exactly one ReflectionNote
\* to reflection_history, whose iteration field is iteration_count before the
\* increment; so the length of reflection_history equals the number of
\* reflector executions and the notes are in strictly increasing iteration
\* order.
C13_OneNotePerReflection ==
    /\ [][pc = "reflector" =>
            /\ Len(reflection_history') = Len(reflection_history) + 1
            /\ SubSeq(reflection_history', 1, Len(reflection_history)) = reflection_history
            /\ reflection_history'[Len(reflection_history')].iteration = iteration_count]_vars
    /\ [](Len(reflection_history) = reflector_runs)
    /\ [](\A i, j \in 1..Len(reflection_history) :
            i < j => reflection_history[i].iteration < reflection_history[j].iteration)

\* two reflections of one run, one of them with a failed reflection LLM call,
\* have left the notes of iterations 0 and 1
C13_Witness ==
    /\ pc = "generator"
    /\ current_file_path \in DOMAIN files
    /\ reflector_runs = 2
    /\ Len(reflection_history) = 2
    /\ reflection_history[1].iteration = 0
    /\ reflection_history[2].iteration = 1
    /\ \E i \in 1..2 : reflection_history[i].error_summary = "Reflection failed"

\* s is a prefix of t
IsPrefix(s, t) == Len(s) <= Len(t) /\ SubSeq(t, 1, Len(s)) = s

\* C14: across every transition (analyzer, generator, validator, reflector,
\* the two handlers, file-queue advancement) the previous validation_history
\* and reflection_history are prefixes of the new ones.
C14_HistoriesOnlyGrow ==
    [][/\ IsPrefix(validation_history, validation_history')
       /\ IsPrefix(reflection_history, reflection_history')]_vars

\* a run with two validation passes and a reflection has ended and the file
\* queue has been advanced to its second file
C14_Witness ==
    /\ pc = "END"
    /\ Len(file_queue) = 2
    /\ file_queue_index = 1
    /\ current_file_path = file_queue[2]
    /\ Len(last_batch) < Len(validation_history)
    /\ Len(reflection_history) >= 1

\* C15: whenever current_file_path is set it is a key of the files map, after
\* the analyzer sets it and after every file-queue advancement.
C15_CurrentFileIsKey ==
    current_file_path # None => current_file_path \in DOMAIN files

\* the queue has been advanced from a completed first file to a second one
\* that does not parse
C15_Witness ==
    /\ pc = "END"
    /\ Len(file_queue) = 2
    /\ file_queue_index = 1
    /\ current_file_path = file_queue[2]
    /\ files[file_queue[1]].status = "COMPLETED"
    /\ ~files[current_file_path].original_content.parses

\* PENDING, then IN_PROGRESS, then the terminal statuses
StatusRank(status) ==
    CASE status = "PENDING" -> 0
      [] status = "IN_PROGRESS" -> 1
      [] status \in {"COMPLETED", "FAILED", "SKIPPED"} -> 2

\* C16: a file's status only moves forward along PENDING -> IN_PROGRESS ->
\* {COMPLETED, FAILED, SKIPPED}: no step (generator, success and escalate
\* handlers, human review, committer) sets a file back to PENDING or moves it
\* out of a terminal status.
C16_StatusMovesForward ==
    [][\A p \in DOMAIN files \cap DOMAIN files' :
          /\ StatusRank(files'[p].status) >= StatusRank(files[p].status)
          /\ StatusRank(files[p].status) = 2 => files'[p].status = files[p].status]_vars

\* an escalated file, left IN_PROGRESS, was approved by the reviewer and
\* committed: COMPLETED, and written to disk; the other file is still PENDING
C16_Witness ==
    /\ pc = "END"
    /\ route = "escalate"
    /\ current_file_path \in DOMAIN files
    /\ files[current_file_path].status = "COMPLETED"
    /\ current_file_path \in DOMAIN disk
    /\ \E p \in DOMAIN files : files[p].status = "PENDING"

\* the content the caller supplied for path p
SuppliedContent(p) ==
    LET f == input_files[IndexOf(FileKeys(input_files), p)]
    IN  [imports |-> f.imports, parses |-> f.parses]

\* C17: every file's original_content is unchanged by every step: generator
\* (deterministic, LLM and fallback paths), success handler and committer
\* carry over the content the workflow started with, and no step touches
\* the entry of a file other than the current one.
C17_OriginalContentKept ==
    /\ [](\A p \in DOMAIN files : files[p].original_content = SuppliedContent(p))
    /\ [][\A p \in DOMAIN files \cap DOMAIN files' :
             /\ files'[p].original_content = files[p].original_content
             /\ p # current_file_path => files'[p] = files[p]]_vars

\* a file that does not parse got the fallback candidate on its first attempt
\* and an LLM candidate on the retry, which the reviewer approved and the
\* committer wrote, next to a second file that no step has touched
C17_Witness ==
    /\ pc = "END"
    /\ generated_log = <<"fallback_bad", "llm_ok">>
    /\ current_file_path \in DOMAIN disk
    /\ disk[current_file_path] = "llm_ok"
    /\ ~files[current_file_path].original_content.parses
    /\ \E p \in DOMAIN files : p # current_file_path /\ files[p].modified_content = None

\* C18: a workflow started with an empty file map does not enter the loop:
\* the analyzer records the input error, no generator, validator, reflector
\* or success-handler step runs afterwards, and the run ends in an error
\* outcome.
C18_EmptyInputSkipsLoop ==
    (input_files = <<>> /\ pc \notin {"start", "analyzer"}) =>
        /\ error_state = "No files provided for analysis"
        /\ generated_log = <<>>
        /\ validation_history = <<>>
        /\ reflector_runs = 0
        /\ pc \notin {"validator", "reflector", "success_handler"}

\* the analyzer has just run
JustAnalyzed == pc = "generator" /\ generated_log = <<>>

\* C19: for every non-empty file map analyzer_node returns file_queue = the
\* dependency order of the supplied files (a permutation of them),
\* file_queue_index = 0 and current_file_path = file_queue[0], and sets no
\* error_state, both when the target-identification LLM call succeeds and
\* when it raises.
C19_AnalyzerReturnsQueue ==
    (JustAnalyzed /\ input_files # <<>>) =>
        /\ file_queue = get_refactoring_order(InputGraph, FileKeys(input_files))
        /\ IsPermutationOf(file_queue, DOMAIN files)
        /\ file_queue_index = 0
        /\ current_file_path = file_queue[1]
        /\ error_state = None
        /\ human_feedback \in {"Analysis complete", "Analysis fallback (LLM unavailable)"}

\* the LLM call raised; the queue of two files, the second supplied one
\* imported by nothing and importing the first, starts with the second
C19_Witness ==
    /\ JustAnalyzed
    /\ human_feedback = "Analysis fallback (LLM unavailable)"
    /\ Len(file_queue) = 2
    /\ file_queue # FileKeys(input_files)
    /\ current_file_path = input_files[2].path

\* C20: whenever current_file_path names a supplied file, generator_node
\* returns a candidate (generated_code_snippet set, the current file's
\* modified_content set to it, its status IN_PROGRESS) and does not set
\* error_state, also when the LLM call raises; and the validator runs next,
\* on that candidate.
C20_GeneratorAlwaysCandidate ==
    /\ [][(pc = "generator" /\ current_file_path \in DOMAIN files) =>
             /\ generated_code_snippet' # None
             /\ generated_log' = Append(generated_log, generated_code_snippet')
             /\ files'[current_file_path].modified_content = generated_code_snippet'
             /\ files'[current_file_path].status = "IN_PROGRESS"
             /\ error_state' = error_state
             /\ pc' = "validator"]_vars
    /\ []((pc = "validator" /\ current_file_path \in DOMAIN files) =>
             CodeToValidate = generated_log[Len(generated_log)])

\* on a retry for a file that does not parse the LLM call raised, and the
\* fallback candidate is about to be validated
C20_Witness ==
    /\ pc = "validator"
    /\ iteration_count >= 1
    /\ current_file_path \in DOMAIN files
    /\ generated_code_snippet = "fallback_bad"
    /\ files[current_file_path].modified_content = "fallback_bad"
    /\ files[current_file_path].status = "IN_PROGRESS"
    /\ error_state = None

\* C21: a validation pass over a candidate that has a syntax error appends
\* exactly one outcome to validation_history: the syntax check, failed, and
\* no lint or type-check outcome.
C21_SyntaxErrorOneOutcome ==
    (JustRouted /\ Truthy(CodeToValidate) /\ ~SyntaxOk(CodeToValidate)) =>
        last_batch = <<ValidationResult("syntax_check", FALSE)>>

\* C22: when validator_node runs in a state that holds no candidate code
\* (generated_code_snippet empty, no modified_content for the current file)
\* it appends at least one outcome and the first one has passed = false.
C22_NoCodeFails ==
    (JustRouted /\ ~Truthy(CodeToValidate)) =>
        /\ Len(last_batch) >= 1
        /\ ~last_batch[1].passed

\* C23: in every reachable state approval_status is one of PENDING,
\* APPROVED, REJECTED, whichever of the success, escalation and human-review
\* transitions have been taken.
C23_ApprovalStatusInEnum ==
    approval_status \in {"PENDING", "APPROVED", "REJECTED"}

\* C24: error_state is set once: it is null initially and, once a step has
\* set it, no later step of the same workflow overwrites or clears it.
C24_ErrorStateSetOnce ==
    [][error_state # None => error_state' = error_state]_vars

\* a step in which the human gate took the reply `action` on a finished run
ReviewReplied(action) ==
    /\ pc = "END"
    /\ pc' = "END"
    /\ approval_status' = human_review_node(action).approval_status
    /\ human_feedback' = "feedback"
    /\ UNCHANGED <<manager_vars, last_prompt, error_state, disk>>

\* C25: a REJECT reply at the human gate marks the current file FAILED and
\* consumes no generation attempt: iteration_count is unchanged and the
\* generator does not run again for that file.
C25_RejectMarksFailed ==
    [][(ReviewReplied("REJECT") /\ current_file_path \in DOMAIN files) =>
          /\ files'[current_file_path].status = "FAILED"
          /\ iteration_count' = iteration_count
          /\ generated_log' = generated_log]_vars

\* C26: a MODIFY reply at the human gate is a regular retry edge: it leads
\* back to the generator with the human's feedback and with iteration_count
\* increased by exactly 1.
C26_ModifyIsRetryEdge ==
    [][(ReviewReplied("MODIFY") /\ current_file_path \in DOMAIN files) =>
          /\ pc' = "generator"
          /\ human_feedback' = "feedback"
          /\ iteration_count' = iteration_count + 1]_vars

\* the fields of the workflow state a checkpoint keeps
CheckpointedState ==
    [files |-> files, current_file_path |-> current_file_path,
     file_queue |-> file_queue, file_queue_index |-> file_queue_index,
     validation_history |-> validation_history,
     reflection_history |-> reflection_history,
     iteration_count |-> iteration_count, max_iterations |-> max_iterations]

\* C27: serializing the workflow state at a state-machine boundary with the
\* checkpoint serializer and deserializing it again yields an identical
\* state, on which the router decides as on the original.
C27_CheckpointRoundTrip ==
    LET restored == deserialize_state(serialize_state(CheckpointedState))
    IN  /\ restored = CheckpointedState
        /\ route_after_validation(restored.validation_history,
                                  restored.iteration_count,
                                  restored.max_iterations)
              = route_after_validation(validation_history, iteration_count,
                                       max_iterations)

\* the WorkflowInfo object self._workflows holds for a workflow id
InfoOf(workflow_id) == infos[workflows[workflow_id]]

\* C28: cancelling a workflow that is paused for review changes nothing but
\* its reported status: what the graph stored for it (files with the
\* generator's modified_content, histories, counters, queue,
\* approval_status) is exactly what it was before the cancel.
C28_CancelOnlyMarks ==
    [][\A workflow_id \in WorkflowIds :
          (/\ workflow_id \in DOMAIN workflows
           /\ workflows' = workflows
           /\ InfoOf(workflow_id).status = "AWAITING_REVIEW"
           /\ infos'[workflows[workflow_id]].status = "CANCELLED") =>
              /\ threads' = threads
              /\ calls' = calls
              /\ infos' = [infos EXCEPT ![workflows[workflow_id]].status = "CANCELLED"]]_vars

C28_Witness ==
    \E workflow_id \in DOMAIN workflows :
        /\ InfoOf(workflow_id).status = "CANCELLED"
        /\ calls[workflows[workflow_id]].stage = "done"
        /\ \A c \in CallIds : calls[c].kind # "resume"
        /\ thread_id(workflow_id) \in DOMAIN threads
        /\ LET st == threads[thread_id(workflow_id)]
           IN  /\ st.node = "END"
               /\ st.error_state = None
               /\ st.approval_status = "PENDING"
               /\ st.files[ManagerFile].modified_content = "llm_ok"
               /\ st.files[ManagerFile].status = "COMPLETED"

\* the calls that are inside graph.ainvoke for a workflow id with a node
\* still to run
ActiveRuns(workflow_id) ==
    {c \in CallIds : /\ calls[c].stage = "invoking"
                     /\ calls[c].workflow_id = workflow_id
                     /\ calls[c].st.node # "END"}

\* C29: for one workflow instance at most one run of the state machine is
\* making transitions at any time, also when two resume requests, or a
\* resume and a start with the same workflow_id, overlap.
C29_OneActiveRun ==
    \A workflow_id \in WorkflowIds : Cardinality(ActiveRuns(workflow_id)) <= 1

\* what belongs to one workflow id: its reported WorkflowInfo, what the
\* graph stored for its thread, and the calls made for it
WorkflowView(workflow_id) ==
    [info   |-> IF workflow_id \in DOMAIN workflows
                THEN <<InfoOf(workflow_id)>> ELSE <<>>,
     stored |-> IF thread_id(workflow_id) \in DOMAIN threads
                THEN <<threads[thread_id(workflow_id)]>> ELSE <<>>,
     runs   |-> [c \in {d \in CallIds : /\ calls[d].stage # "idle"
                                        /\ calls[d].workflow_id = workflow_id} |->
                    calls[c]]]

\* C30: workflows with different ids share no mutable state: a step made
\* for one workflow leaves the files, iteration_count, queue, histories and
\* reported status of every other workflow as they were, under every
\* interleaving.
C30_WorkflowsIndependent ==
    [][\A workflow_id \in WorkflowIds :
          acting' # workflow_id => WorkflowView(workflow_id)' = WorkflowView(workflow_id)]_vars

C30_Witness ==
    /\ calls[1].stage = "invoking"
    /\ calls[2].stage = "invoking"
    /\ calls[1].workflow_id # calls[2].workflow_id
    /\ calls[1].st.node = "reflector"
    /\ calls[1].st.iteration_count = 0
    /\ calls[2].st.node = "validator"
    /\ calls[2].st.iteration_count = 1
    /\ InfoOf(calls[1].workflow_id).status = "RUNNING"
    /\ InfoOf(calls[2].workflow_id).status = "CANCELLED"

\* the fields route_next_file never returns
NotRoutedFields ==
    <<files, file_queue, generated_code_snippet, validation_history,
      reflection_history, max_iterations, approval_status, error_state,
      code_hashes, human_feedback>>

\* C31: route_next_file with a file left in the queue moves the index on by
\* one, makes that file current and resets iteration_count to 0, changing
\* nothing else; with none left it keeps current_file_path, iteration_count
\* and file_queue.  So every change of current_file_path gives
\* iteration_count = 0, and the advancements go through the queue in order,
\* each file once.
C31_RouteNextFile ==
    [][/\ file_queue_index' # file_queue_index =>
            /\ file_queue_index' = file_queue_index + 1
            /\ NotRoutedFields' = NotRoutedFields
            /\ IF file_queue_index + 1 < Len(file_queue)
               THEN /\ current_file_path' = file_queue[file_queue_index + 2]
                    /\ iteration_count' = 0
               ELSE /\ current_file_path' = current_file_path
                    /\ iteration_count' = iteration_count
       /\ current_file_path' # current_file_path =>
            /\ iteration_count' = 0
            /\ current_file_path' = file_queue'[file_queue_index' + 1]
            /\ current_file_path # None =>
                  IndexOf(file_queue, current_file_path') =
                      IndexOf(file_queue, current_file_path) + 1]_vars

C31_Witness ==
    /\ Len(file_queue) = 2
    /\ file_queue_index = 1
    /\ current_file_path = file_queue[2]
    /\ iteration_count = 0
    /\ Len(reflection_history) = MaxIter
    /\ files[file_queue[1]].status = "IN_PROGRESS"
    /\ error_state # None

\* C34: once the analyzer has built a non-empty queue, file_queue_index
\* stays a valid position of the queue and current_file_path is the file at
\* that position, also after route_next_file on an exhausted queue.
C34_IndexInsideQueue ==
    file_queue # <<>> =>
        /\ 0 <= file_queue_index
        /\ file_queue_index < Len(file_queue)
        /\ current_file_path = file_queue[file_queue_index + 1]

\* the first validation pass for the current file has just run and every
\* outcome of it passed
FirstPassSucceeded ==
    /\ current_file_path # None
    /\ Len(generated_log) = 1
    /\ last_batch # <<>>
    /\ validation_history = last_batch
    /\ \A i \in 1..Len(last_batch) : last_batch[i].passed

\* C32: if the first validation pass for a file succeeds, the workflow
\* reaches the success outcome without any reflector execution: in the final
\* state the file is COMPLETED, iteration_count = 0, reflection_history is
\* empty and error_state is null.
C32_FirstPassSuccess ==
    /\ [](FirstPassSucceeded => (reflector_runs = 0 /\ pc \in {"success_handler", "END"}))
    /\ FirstPassSucceeded ~>
          (/\ pc = "END"
           /\ current_file_path \in DOMAIN files
           /\ files[current_file_path].status = "COMPLETED"
           /\ iteration_count = 0
           /\ reflection_history = <<>>
           /\ error_state = None)

C32_Witness ==
    /\ pc = "END"
    /\ FirstPassSucceeded
    /\ ~validator_bypassed
    /\ Len(last_batch) = 3
    /\ files[current_file_path].status = "COMPLETED"
    /\ files[current_file_path].modified_content = LibcstOutput
    /\ iteration_count = 0

\* the generator has just returned a candidate for the current file
JustGenerated ==
    /\ pc = "validator"
    /\ generated_log # <<>>
    /\ generated_log[Len(generated_log)] # None

\* C33: the generator takes the deterministic-transform path only when
\* iteration_count = 0; on every retry (iteration_count > 0) it builds the
\* LLM prompt, and when reflection_history is non-empty the prompt carries
\* its last entry, never an older one.
C33_RetryUsesLatestReflection ==
    JustGenerated =>
        /\ generated_code_snippet = LibcstOutput => iteration_count = 0
        /\ iteration_count > 0 =>
              /\ last_prompt.llm
              /\ reflection_history # <<>> =>
                    last_prompt.reflection =
                        <<reflection_history[Len(reflection_history)]>>

C33_Witness ==
    /\ JustGenerated
    /\ iteration_count = 2
    /\ Len(reflection_history) = 2
    /\ reflection_history[1] # reflection_history[2]
    /\ last_prompt.llm
    /\ last_prompt.reflection = <<reflection_history[2]>>
    /\ generated_log[1] = "llm_bad"
    /\ generated_code_snippet = "llm_ok"

\* C35: success is soft: no step of the automated loop sets approval_status
\* to APPROVED, it becomes APPROVED only by a human response with action
\* APPROVE, and neither start_workflow nor resume_workflow reports COMPLETED
\* without one.
C35_SuccessIsSoft ==
    /\ [][(approval_status' = "APPROVED" /\ approval_status # "APPROVED") =>
              ReviewReplied("APPROVE")]_vars
    /\ [](\A t \in DOMAIN threads : threads[t].approval_status # "APPROVED")
    /\ [](\A c \in DOMAIN infos : infos[c].status # "COMPLETED")

C35_Witness ==
    /\ calls[1].kind = "start"
    /\ calls[2].kind = "resume"
    /\ calls[1].stage = "done"
    /\ calls[2].stage = "done"
    /\ "st" \in DOMAIN calls[1]
    /\ calls[1].st.node = "END"
    /\ calls[1].st.error_state = None
    /\ calls[1].st.files[ManagerFile].status = "COMPLETED"
    /\ infos[1].status = "AWAITING_REVIEW"

\* committer_node's three tests pass on the state
CommitAllowed ==
    /\ approval_status = "APPROVED"
    /\ current_file_path \in DOMAIN files
    /\ files[current_file_path].modified_content \notin {None, ""}

\* C36: committer_node writes the modified content to disk and marks the
\* file COMPLETED only when approval_status is APPROVED, the current file is
\* in the files map and its modified_content is non-empty; in every other
\* case, a failed write included, it sets error_state and returns no change
\* to the files map.
C36_CommitOnlyApproved ==
    [][pc = "END" =>
          /\ (disk' # disk \/ files' # files) =>
                /\ CommitAllowed
                /\ disk'[current_file_path] = files[current_file_path].modified_content
                /\ files'[current_file_path].status = "COMPLETED"
                /\ error_state' = error_state
          /\ error_state' # error_state =>
                /\ error_state' # None
                /\ files' = files
                /\ disk' = disk
          /\ (approval_status' = approval_status /\ human_feedback' # "feedback"
                  /\ ~CommitAllowed) =>
                /\ error_state' # None
                /\ files' = files
                /\ disk' = disk]_vars

C36_Witness ==
    /\ pc = "END"
    /\ approval_status = "APPROVED"
    /\ human_feedback = "Successfully committed changes"
    /\ error_state = "Commit failed"
    /\ current_file_path \in DOMAIN disk
    /\ disk[current_file_path] = "fallback_ok"
    /\ files[current_file_path].status = "COMPLETED"

\* a step in which the human gate changed the state of a finished run
ReviewStep ==
    /\ pc = "END"
    /\ pc' = "END"
    /\ UNCHANGED <<error_state, disk>>
    /\ \/ approval_status' # approval_status
       \/ human_feedback' = "feedback" /\ human_feedback # "feedback"

\* C37: the human gate fails closed: a non-empty reply whose action is
\* missing or is neither APPROVE nor MODIFY gives approval_status REJECTED,
\* and no reply changes files, iteration_count or the histories.
C37_GateFailsClosed ==
    /\ [](pc = "END" =>
            \A response \in HumanResponses \ {None, "APPROVE", "MODIFY"} :
                /\ human_review_node(response).approval_status = "REJECTED"
                /\ DOMAIN human_review_node(response) =
                      {"approval_status", "human_feedback"})
    /\ [][ReviewStep =>
            /\ files' = files
            /\ iteration_count' = iteration_count
            /\ validation_history' = validation_history
            /\ reflection_history' = reflection_history
            /\ approval_status' \in
                  {human_review_node(response).approval_status :
                      response \in HumanResponses}]_vars

C37_Witness ==
    /\ pc = "END"
    /\ approval_status = "REJECTED"
    /\ human_feedback = "feedback"
    /\ error_state = None
    /\ disk = <<>>
    /\ Len(validation_history) = 3
    /\ current_file_path \in DOMAIN files
    /\ files[current_file_path].status = "COMPLETED"
    /\ files[current_file_path].modified_content = "llm_ok"

C5_LatestBatchDecides ==
    (/\ JustRouted
     /\ Len(last_batch) >= 1 /\ Len(last_batch) < 5
     /\ \A i \in 1..Len(last_batch) : last_batch[i].passed)
        => route = "success"

\* the latest candidate equals one the generator returned earlier for the file
DuplicateCandidate ==
    /\ generated_log # <<>>
    /\ generated_log[Len(generated_log)] # None
    /\ \E i \in 1..(Len(generated_log) - 1) :
          generated_log[i] = generated_log[Len(generated_log)]

\* C6: when the generator produces a candidate whose hash equals that of an
\* earlier candidate for the same file, the workflow escalates instead of
\* retrying, whatever budget remains; and code_hashes holds the hash of every
\* candidate generated so far for the current file.
C6_DuplicateEscalates ==
    /\ (JustRouted /\ DuplicateCandidate) => pc = "escalate_handler"
    /\ \A i \in 1..Len(generated_log) :
          generated_log[i] # None => CodeHash(generated_log[i]) \in code_hashes

\* C7: with n >= 2 queued files every queued file is processed before the
\* workflow terminates: at the end each one is COMPLETED or FAILED.
C7_EveryQueuedFileProcessed ==
    (pc = "END" /\ Len(file_queue) >= 2) =>
        \A i \in 1..Len(file_queue) :
            files[file_queue[i]].status \in {"COMPLETED", "FAILED"}

\* C8: whenever the workflow takes the escalate transition for a file, that
\* file's status is FAILED in the resulting state.
C8_EscalatedFileFailed ==
    (pc = "END" /\ route = "escalate" /\ current_file_path \in DOMAIN files) =>
        files[current_file_path].status = "FAILED"

====
